---- MODULE Spec2Model ----
(***************************************************************************)
(* Model of the container-ui backend (smartcat999/registry-agent):         *)
(*                                                                         *)
(*   - the context store (contexts.json) and the per-context client cache  *)
(*     of DockerService (readConfig, saveConfig, getClient, CreateContext, *)
(*     DeleteContext, UpdateContextConfig);                                *)
(*   - the interactive session bridge ContainerHandler.ExecContainer with  *)
(*     its two pump goroutines.                                            *)
(*                                                                         *)
(* Spec     : registry operations run by concurrent request goroutines,    *)
(*            interleaved statement by statement (the code takes no lock). *)
(* SeqSpec  : the same operations, one request at a time.                  *)
(* SessSpec : one ExecContainer session; SessFair adds the fairness of the *)
(*            Go scheduler to the handler and pump steps.                  *)
(***************************************************************************)
EXTENDS Integers, Sequences, FiniteSets, TLC

(***************************************************************************)
(* Bounds                                                                  *)
(***************************************************************************)
\* registry operations started in one behaviour of SeqSpec
MaxOps == 3
\* registry operations started in one behaviour of Spec (interleaved)
MaxConcOps == 2
\* bytes emitted by the remote process plus frames sent by the operator in a session
MaxIO == 2
\* UpdateContextConfig calls made by other requests during a session
MaxUpdates == 1

(***************************************************************************)
(* Context store document and client handles                               *)
(***************************************************************************)
Procs == {"p1", "p2"}
Names == {"a", "b"}
\* "" is the empty / missing host, "bad" a host the client library cannot parse
Hosts == {"", "h1", "h2", "bad"}
Types == {"tcp"}

\* host used by a client built from the environment when DOCKER_HOST is empty
DefaultDockerHost == "default"

NoEntry == [present |-> FALSE, type |-> "", host |-> ""]
Entry(t, h) == [present |-> TRUE, type |-> t, host |-> h]

\* the document readConfig writes when the file does not exist
defaultConfig == [state |-> "ok", contexts |-> [n \in Names |-> NoEntry], current |-> ""]
\* no file on disk yet
NoFile == [state |-> "nofile", contexts |-> [n \in Names |-> NoEntry], current |-> ""]
\* a file truncated by a failed os.WriteFile: json.Unmarshal rejects it
Truncated == [state |-> "corrupt", contexts |-> [n \in Names |-> NoEntry], current |-> ""]
\* a store holding two contexts, of which "a" is the current context
SeedDoc == [state |-> "ok",
            contexts |-> [n \in Names |-> Entry("tcp", IF n = "a" THEN "h1" ELSE "h2")],
            current |-> "a"]

NoClient == [id |-> 0, host |-> ""]
OkRes(c) == [err |-> "", cli |-> c]
ErrRes(e) == [err |-> e, cli |-> NoClient]

VARIABLES
    store,      \* content of .docker-contexts/contexts.json
    clients,    \* DockerService.clients: context name -> handle (NoClient: no entry)
    env,        \* process environment variable DOCKER_HOST
    nextId,     \* identity of the next client object allocated
    proc,       \* per request goroutine: pc and locals of the running operation
    nops,       \* number of operations started
    last        \* the operation that returned last (its arguments and result)

regVars == <<store, clients, env, nextId, proc, nops, last>>

Idle == [pc |-> "idle", op |-> "none", name |-> "", type |-> "", host |-> "",
         cfg |-> defaultConfig, isCur |-> FALSE, pre |-> NoClient, upd |-> FALSE,
         res |-> ErrRes("")]

\* os.WriteFile(configPath, data, 0644): the outcomes of replacing file content `old`
\* by `new`: success; open fails (file untouched); write fails after O_TRUNC.
WriteFileOutcomes(old, new) ==
    { [err |-> FALSE, file |-> new],
      [err |-> TRUE,  file |-> old],
      [err |-> TRUE,  file |-> Truncated] }

\* readConfig(): outcomes [err, cfg, file] on file content f
readConfig(f) ==
    IF f.state = "nofile"
      THEN { [err |-> w.err, cfg |-> defaultConfig, file |-> w.file] :
                 w \in WriteFileOutcomes(f, defaultConfig) }
    ELSE IF f.state = "corrupt"
      THEN { [err |-> TRUE, cfg |-> defaultConfig, file |-> f] }
    ELSE { [err |-> FALSE, cfg |-> f, file |-> f] }

\* saveConfig(config): outcomes [err, file]
saveConfig(f, cfg) == WriteFileOutcomes(f, cfg)

\* client.NewClientWithOpts(client.WithHost(host), ...): the library fails on a
\* host it cannot parse, otherwise the client is bound to host
NewClientWithHostFails(h) == h = "bad"

\* client.NewClientWithOpts(client.FromEnv, ...): DOCKER_HOST is used when it is
\* not empty, otherwise the client keeps the library's default host
FromEnvHost(e) == IF e = "" THEN DefaultDockerHost ELSE e

\* well-formed hosts at which no backend answers. client.NewClientWithOpts opens no
\* connection, so no operation of the registry reads this set
Unreachable == {"h2"}

\* buildDockerHost(config)
buildDockerHost(h) == h


(***************************************************************************)
(* Session bridge state (declared here so that registry steps can leave it *)
(* unchanged; its actions follow the registry).                            *)
(***************************************************************************)
VARIABLES
    sess        \* the state of one ExecContainer session

sessVars == <<sess>>
vars == <<store, clients, env, nextId, proc, nops, last, sess>>

hostOfLax(cfg, n) == [err |-> "", host |-> cfg.contexts[n].host]
\* the lookup getClient makes in the document it has read
hostOf(cfg, n) ==
    IF ~cfg.contexts[n].present THEN [err |-> "NotFound", host |-> ""]
    ELSE IF cfg.contexts[n].host = "" THEN [err |-> "InvalidConfig", host |-> ""]
    ELSE [err |-> "", host |-> cfg.contexts[n].host]

\* getClient run without interruption on client map cl, file st and next identity
\* nid: the outcomes [res, clients, store, nextId]
getClient(cl, st, nid, n) ==
    IF cl[n].id # 0
      THEN { [res |-> OkRes(cl[n]), clients |-> cl, store |-> st, nextId |-> nid] }
      ELSE { IF r.err
               THEN [res |-> ErrRes("ConfigError"), clients |-> cl, store |-> r.file, nextId |-> nid]
             ELSE IF hostOf(r.cfg, n).err # ""
               THEN [res |-> ErrRes(hostOf(r.cfg, n).err), clients |-> cl, store |-> r.file,
                     nextId |-> nid]
             ELSE IF NewClientWithHostFails(hostOf(r.cfg, n).host)
               THEN [res |-> ErrRes("ClientError"), clients |-> cl, store |-> r.file,
                     nextId |-> nid]
             ELSE [res |-> OkRes([id |-> nid, host |-> hostOf(r.cfg, n).host]),
                   clients |-> [cl EXCEPT ![n] = [id |-> nid, host |-> hostOf(r.cfg, n).host]],
                   store |-> r.file, nextId |-> nid + 1]
             : r \in readConfig(st) }

(***************************************************************************)
(* Registry operations, one action per statement group of the code         *)
(***************************************************************************)
\* the test `currentContext, ok := config["current-context"].(string); ok &&
\* currentContext == name` of DeleteContext and UpdateContextConfig
isCurrentNever(cfg, n) == FALSE
isCurrent(cfg, n) == cfg.current = n

Finish(p, r) == [proc[p] EXCEPT !.pc = "done", !.res = r]

\* what is remembered of a returned operation; pre is s.clients[name] at the call
HistRec(q) == [op |-> q.op, name |-> q.name, host |-> q.host, err |-> q.res.err,
               cli |-> q.res.cli, isCur |-> q.isCur, pre |-> q.pre]

Begin(p, lim, o, n, t, h) ==
    /\ proc[p].pc = "idle"
    /\ nops < lim
    /\ nops' = nops + 1
    /\ proc' = [q \in Procs |->
                  IF q = p
                    THEN [Idle EXCEPT !.pc = o, !.op = o, !.name = n, !.type = t, !.host = h,
                                      !.pre = clients[n]]
                  ELSE IF o = "update" /\ proc[q].pc # "idle" /\ proc[q].name = n
                    THEN [proc[q] EXCEPT !.upd = TRUE]
                  ELSE proc[q]]
    /\ UNCHANGED <<store, clients, env, nextId, last, sessVars>>

\* a request handler calls s.getClient(contextName)
CallGetClient(p, lim) == \E n \in Names : Begin(p, lim, "get", n, "", "")
\* a request handler calls s.CreateContext(config)
CallCreateContext(p, lim) ==
    \E n \in Names, t \in Types, h \in Hosts : Begin(p, lim, "create", n, t, h)
\* a request handler calls s.DeleteContext(name)
CallDeleteContext(p, lim) == \E n \in Names : Begin(p, lim, "delete", n, "", "")
\* a request handler calls s.UpdateContextConfig(name, config)
CallUpdateContextConfig(p, lim) ==
    \E n \in Names, t \in Types, h \in Hosts : Begin(p, lim, "update", n, t, h)

\* getClient: if cli, exists := s.clients[contextName]; exists { return cli, nil }
GetCheck(p) ==
    /\ proc[p].pc = "get"
    /\ proc' = [proc EXCEPT ![p] =
                  IF clients[proc[p].name].id # 0
                    THEN Finish(p, OkRes(clients[proc[p].name]))
                    ELSE [proc[p] EXCEPT !.pc = "g_read"]]
    /\ UNCHANGED <<store, clients, env, nextId, nops, last, sessVars>>

\* getClient: readConfig and the lookup of the context's host
GetRead(p) ==
    /\ proc[p].pc = "g_read"
    /\ \E r \in readConfig(store) :
         /\ store' = r.file
         /\ proc' = [proc EXCEPT ![p] =
              IF r.err THEN Finish(p, ErrRes("ConfigError"))
              ELSE IF hostOf(r.cfg, proc[p].name).err # ""
                THEN Finish(p, ErrRes(hostOf(r.cfg, proc[p].name).err))
              ELSE [proc[p] EXCEPT !.pc = "g_new", !.cfg = r.cfg,
                                   !.host = hostOf(r.cfg, proc[p].name).host]]
    /\ UNCHANGED <<clients, env, nextId, nops, last, sessVars>>

\* getClient: client.NewClientWithOpts(client.WithHost(host), ...); s.clients[contextName] = cli
GetNew(p) ==
    /\ proc[p].pc = "g_new"
    /\ IF NewClientWithHostFails(proc[p].host)
         THEN /\ proc' = [proc EXCEPT ![p] = Finish(p, ErrRes("ClientError"))]
              /\ UNCHANGED <<clients, nextId>>
         ELSE LET cli == [id |-> nextId, host |-> proc[p].host] IN
              /\ clients' = [clients EXCEPT ![proc[p].name] = cli]
              /\ nextId' = nextId + 1
              /\ proc' = [proc EXCEPT ![p] = Finish(p, OkRes(cli))]
    /\ UNCHANGED <<store, env, nops, last, sessVars>>

\* CreateContext: readConfig; contexts[config.Name] = {type, host}
CreateRead(p) ==
    /\ proc[p].pc = "create"
    /\ \E r \in readConfig(store) :
         /\ store' = r.file
         /\ proc' = [proc EXCEPT ![p] =
              IF r.err THEN Finish(p, ErrRes("ConfigError"))
              ELSE [proc[p] EXCEPT !.pc = "c_save",
                       !.cfg = [r.cfg EXCEPT !.contexts[proc[p].name] =
                                               Entry(proc[p].type, proc[p].host)]]]
    /\ UNCHANGED <<clients, env, nextId, nops, last, sessVars>>

\* the final `return saveConfig(cfg)` of CreateContext, DeleteContext, UpdateContextConfig
Save(p, at) ==
    /\ proc[p].pc = at
    /\ \E w \in saveConfig(store, proc[p].cfg) :
         /\ store' = w.file
         /\ proc' = [proc EXCEPT ![p] =
                       Finish(p, IF w.err THEN ErrRes("WriteError") ELSE OkRes(NoClient))]
    /\ UNCHANGED <<clients, env, nextId, nops, last, sessVars>>

CreateSave(p) == Save(p, "c_save")

\* DeleteContext: readConfig; current-context check; existence check; delete(contexts, name)
DeleteRead(p) ==
    /\ proc[p].pc = "delete"
    /\ \E r \in readConfig(store) :
         /\ store' = r.file
         /\ proc' = [proc EXCEPT ![p] =
              IF r.err THEN Finish(p, ErrRes("ConfigError"))
              ELSE IF isCurrent(r.cfg, proc[p].name) THEN Finish(p, ErrRes("InUse"))
              ELSE IF ~r.cfg.contexts[proc[p].name].present THEN Finish(p, ErrRes("NotFound"))
              ELSE [proc[p] EXCEPT !.pc = "d_save",
                       !.cfg = [r.cfg EXCEPT !.contexts[proc[p].name] = NoEntry]]]
    /\ UNCHANGED <<clients, env, nextId, nops, last, sessVars>>

DeleteSave(p) == Save(p, "d_save")

\* UpdateContextConfig: readConfig; existence check; contexts[name] = {type, host};
\* the test whether name is the current context
UpdateRead(p) ==
    /\ proc[p].pc = "update"
    /\ \E r \in readConfig(store) :
         /\ store' = r.file
         /\ proc' = [proc EXCEPT ![p] =
              IF r.err THEN Finish(p, ErrRes("ConfigError"))
              ELSE IF ~r.cfg.contexts[proc[p].name].present THEN Finish(p, ErrRes("NotFound"))
              ELSE [proc[p] EXCEPT
                       !.pc = IF isCurrent(r.cfg, proc[p].name) THEN "u_env" ELSE "u_save",
                       !.isCur = isCurrent(r.cfg, proc[p].name),
                       !.cfg = [r.cfg EXCEPT !.contexts[proc[p].name] =
                                               Entry(proc[p].type, proc[p].host)]]]
    /\ UNCHANGED <<clients, env, nextId, nops, last, sessVars>>

\* UpdateContextConfig: os.Setenv("DOCKER_HOST", buildDockerHost(config))
UpdateSetenv(p) ==
    /\ proc[p].pc = "u_env"
    /\ env' = buildDockerHost(proc[p].host)
    /\ proc' = [proc EXCEPT ![p].pc = "u_new"]
    /\ UNCHANGED <<store, clients, nextId, nops, last, sessVars>>

\* UpdateContextConfig: client.NewClientWithOpts(client.FromEnv, ...); s.clients[name] = cli
UpdateNew(p) ==
    /\ proc[p].pc = "u_new"
    /\ IF NewClientWithHostFails(FromEnvHost(env))
         THEN /\ proc' = [proc EXCEPT ![p] = Finish(p, ErrRes("ClientError"))]
              /\ UNCHANGED <<clients, nextId>>
         ELSE /\ clients' = [clients EXCEPT ![proc[p].name] =
                                [id |-> nextId, host |-> FromEnvHost(env)]]
              /\ nextId' = nextId + 1
              /\ proc' = [proc EXCEPT ![p].pc = "u_save"]
    /\ UNCHANGED <<store, env, nops, last, sessVars>>

UpdateSave(p) == Save(p, "u_save")

\* the operation returns to its caller
Return(p) ==
    /\ proc[p].pc = "done"
    /\ last' = HistRec(proc[p])
    /\ proc' = [proc EXCEPT ![p] = Idle]
    /\ UNCHANGED <<store, clients, env, nextId, nops, sessVars>>

\* the steps of request goroutine p, which starts operations while fewer than lim
\* have been started
RegStep(p, lim) ==
    \/ CallGetClient(p, lim) \/ GetCheck(p) \/ GetRead(p) \/ GetNew(p)
    \/ CallCreateContext(p, lim) \/ CreateRead(p) \/ CreateSave(p)
    \/ CallDeleteContext(p, lim) \/ DeleteRead(p) \/ DeleteSave(p)
    \/ CallUpdateContextConfig(p, lim) \/ UpdateRead(p) \/ UpdateSetenv(p) \/ UpdateNew(p)
    \/ UpdateSave(p)
    \/ Return(p)

(***************************************************************************)
(* Session bridge: data                                                    *)
(***************************************************************************)
\* errChan := make(chan error, 2)
errChanCap == 2
\* buf := make([]byte, 1024)
bufSize == 1024

TextMessage == "text"
BinaryMessage == "binary"

\* the bytes the remote process emits, in order
RemoteStream == [i \in 1..MaxIO |-> i]

\* a frame payload as JSON text: wf is whether it parses as a JSON object; tag is
\* the JSON kind of its "data" member ("absent", "string", "number")
Json(wf, ty, tag, d, r, c) ==
    [wf |-> wf, type |-> ty, tag |-> tag, data |-> d, rows |-> r, cols |-> c]
Frame(k, j) == [kind |-> k, payload |-> j]

InputA == Json(TRUE, "input", "string", <<7>>, 0, 0)
InputB == Json(TRUE, "input", "string", <<8, 9>>, 0, 0)
\* the frames an operator may send
Frames ==
    { Frame(TextMessage, InputA),
      Frame(TextMessage, InputB),
      Frame(TextMessage, Json(TRUE, "resize", "absent", << >>, 24, 80)),
      Frame(TextMessage, Json(TRUE, "ping", "string", <<5>>, 0, 0)),
      Frame(TextMessage, Json(TRUE, "input", "number", << >>, 0, 0)),
      Frame(TextMessage, Json(FALSE, "input", "string", <<6>>, 0, 0)),
      Frame(BinaryMessage, InputA) }
NoFrame == Frame("", Json(FALSE, "", "absent", << >>, 0, 0))

\* json.Unmarshal(p, &msg) into struct{Type, Data string; Cols, Rows int}: an error
\* for text that is no JSON object or whose "data" is not a string; members that
\* are absent keep the zero value
UnmarshalLax(j) ==
    [err |-> FALSE, Type |-> j.type, Data |-> j.data, Rows |-> j.rows, Cols |-> j.cols]
Unmarshal(j) ==
    IF ~j.wf \/ j.tag = "number"
      THEN [err |-> TRUE, Type |-> "", Data |-> << >>, Rows |-> 0, Cols |-> 0]
      ELSE [err |-> FALSE, Type |-> j.type,
            Data |-> IF j.tag = "string" THEN j.data ELSE << >>,
            Rows |-> j.rows, Cols |-> j.cols]

\* the bytes an operator frame asks to be relayed: the "data" member of a text
\* frame that is a JSON object with type "input" and a string (or no) data
InputData(f) ==
    IF /\ f.kind = TextMessage /\ f.payload.wf /\ f.payload.type = "input"
       /\ f.payload.tag = "string"
      THEN f.payload.data ELSE << >>

Min(a, b) == IF a < b THEN a ELSE b

\* no ExecContainer request yet
SessIdle ==
    [ hpc |-> "none",        \* position of the handler goroutine
      opc |-> "none",        \* position of the outbound pump goroutine
      ipc |-> "none",        \* position of the inbound pump goroutine
      ctx |-> "",            \* c.Param("context")
      ws |-> "none",         \* operator connection: none, open, closed (by ws.Close)
      hj |-> "none",         \* hijackedResp: none, open, closed (by hijackedResp.Close)
      peerClosed |-> FALSE,  \* the operator has closed or lost the connection
      remoteDone |-> FALSE,  \* the remote process has ended its stream
      produced |-> 0,        \* bytes emitted by the remote process
      rd |-> << >>,          \* bytes returned by hijackedResp.Read so far
      buf |-> << >>,         \* buf[:nr] of the outbound pump
      wsLog |-> << >>,       \* frames written with ws.WriteMessage, in order
      pending |-> << >>,     \* the frame sent by the operator and not yet read
      sent |-> 0,            \* number of frames the operator has sent
      cur |-> NoFrame,       \* the frame the inbound pump is handling
      expIn |-> << >>,       \* data of the input control frames read, concatenated
      remoteIn |-> << >>,    \* bytes written to hijackedResp
      calls |-> << >>,       \* backend calls issued, with the client used
      errChan |-> << >>,     \* content of errChan
      started |-> "no",      \* outcome of StartExec: no, ok, failed
      cause |-> "" ]         \* the setup step that failed, if any


\* NewDockerService(): an empty client map; the store file is whatever is on disk
RegInit ==
    /\ store \in {NoFile, SeedDoc}
    /\ clients = [n \in Names |-> NoClient]
    /\ env = ""
    /\ nextId = 1
    /\ proc = [p \in Procs |-> Idle]
    /\ nops = 0
    /\ last = HistRec(Idle)
    /\ sess = SessIdle

\* request goroutines interleave freely
Next == \E p \in Procs : RegStep(p, MaxConcOps)
Spec == RegInit /\ [][Next]_vars

\* one request at a time, each run to completion before the next starts
SeqProc == "p1"
SeqNext == RegStep(SeqProc, MaxOps)
SeqSpec == RegInit /\ [][SeqNext]_vars

(***************************************************************************)
(* Session bridge: ContainerHandler.ExecContainer and its two pumps        *)
(***************************************************************************)
regIdle == <<env, proc, nops, last>>
Call(c, id, r, k) == [call |-> c, id |-> id, rows |-> r, cols |-> k, err |-> FALSE]
Failed(call) == [call EXCEPT !.err = TRUE]
WsRec(k, d, t, by) == [kind |-> k, data |-> d, text |-> t, by |-> by]

\* whether a ws.WriteMessage call can succeed / can fail: it fails on a connection
\* closed by ws.Close, and may fail once the operator is gone
WsWriteResults == IF sess.ws # "open" THEN {FALSE}
                  ELSE IF sess.peerClosed THEN {TRUE, FALSE} ELSE {TRUE}

\* the message the handler sends to the operator for a failed setup step
setupErrorSilent(step) == << >>
setupError(step) == << "Error " \o step >>

\* ws.WriteMessage(websocket.TextMessage, []byte(fmt.Sprintf("Error ...: %v\n", err)))
\* by the handler; its result is ignored
Report(log, step) ==
    log \o [i \in 1..Len(setupError(step)) |->
               WsRec(TextMessage, << >>, setupError(step)[i], "handler")]

\* the DockerService method first calls getClient
Svc(g) == /\ clients' = g.clients /\ store' = g.store /\ nextId' = g.nextId
          /\ UNCHANGED regIdle

\* GET .../exec arrives for context n
HRequest ==
    /\ sess.hpc = "none"
    /\ \E n \in Names : sess' = [sess EXCEPT !.hpc = "upgrade", !.ctx = n]
    /\ UNCHANGED regVars

\* upgrader.Upgrade; defer ws.Close()
HUpgrade ==
    /\ sess.hpc = "upgrade"
    /\ \/ sess' = [sess EXCEPT !.hpc = "returned", !.cause = "upgrade"]
       \/ sess' = [sess EXCEPT !.hpc = "create", !.ws = "open"]
    /\ UNCHANGED regVars

\* a setup step failed: report it, return (the deferred ws.Close follows)
SetupFailed(step, cs) ==
    sess' = [sess EXCEPT !.hpc = "defer_ws", !.cause = step, !.calls = cs,
                         !.wsLog = Report(@, step)]

\* h.dockerService.CreateExec(contextName, id, execConfig)
HCreateExec ==
    /\ sess.hpc = "create"
    /\ \E g \in getClient(clients, store, nextId, sess.ctx) :
         /\ Svc(g)
         /\ IF g.res.err # ""
              THEN SetupFailed("creating exec", sess.calls)
              ELSE LET cs == Append(sess.calls, Call("create", g.res.cli.id, 0, 0)) IN
                   \/ sess' = [sess EXCEPT !.hpc = "attach", !.calls = cs]
                   \/ SetupFailed("creating exec", cs)

\* h.dockerService.AttachExec(contextName, resp.ID, tty); defer hijackedResp.Close()
HAttachExec ==
    /\ sess.hpc = "attach"
    /\ \E g \in getClient(clients, store, nextId, sess.ctx) :
         /\ Svc(g)
         /\ IF g.res.err # ""
              THEN SetupFailed("attaching to exec", sess.calls)
              ELSE LET cs == Append(sess.calls, Call("attach", g.res.cli.id, 0, 0)) IN
                   \/ sess' = [sess EXCEPT !.hpc = "spawn", !.calls = cs, !.hj = "open"]
                   \/ SetupFailed("attaching to exec", cs)

\* errChan := make(chan error, 2); go func() {outbound}(); go func() {inbound}()
HSpawn ==
    /\ sess.hpc = "spawn"
    /\ sess' = [sess EXCEPT !.hpc = "start", !.opc = "read", !.ipc = "read",
                            !.errChan = << >>]
    /\ UNCHANGED regVars

\* h.dockerService.StartExec(...); on error report it and return
HStartExec ==
    /\ sess.hpc = "start"
    /\ \E g \in getClient(clients, store, nextId, sess.ctx) :
         /\ Svc(g)
         /\ LET cs == IF g.res.err # "" THEN sess.calls
                      ELSE Append(sess.calls, Call("start", g.res.cli.id, 0, 0))
                failed == sess' = [sess EXCEPT !.hpc = "defer_hj",
                                     !.started = "failed", !.calls = cs,
                                     !.wsLog = Report(@, "starting exec")]
            IN IF g.res.err # "" THEN failed
               ELSE \/ sess' = [sess EXCEPT !.hpc = "select", !.started = "ok", !.calls = cs]
                    \/ failed

\* select: case err := <-errChan
HSelectErr ==
    /\ sess.hpc = "select"
    /\ sess.errChan # << >>
    /\ sess' = [sess EXCEPT !.hpc = "defer_hj", !.errChan = Tail(@)]
    /\ UNCHANGED regVars

\* select: case <-c.Done()
HSelectDone ==
    /\ sess.hpc = "select"
    /\ sess' = [sess EXCEPT !.hpc = "defer_hj"]
    /\ UNCHANGED regVars

\* the state of the remote process handle after the deferred hijackedResp.Close()
hijackLeft(h) == h
hijackClose(h) == "closed"

\* deferred hijackedResp.Close()
HCloseHijack ==
    /\ sess.hpc = "defer_hj"
    /\ sess' = [sess EXCEPT !.hpc = "defer_ws", !.hj = hijackClose(@)]
    /\ UNCHANGED regVars

\* the state of the operator connection after the deferred ws.Close()
wsLeft(w) == w
wsClose(w) == "closed"

\* deferred ws.Close(); the handler returns
HCloseWs ==
    /\ sess.hpc = "defer_ws"
    /\ sess' = [sess EXCEPT !.hpc = "returned", !.ws = wsClose(@)]
    /\ UNCHANGED regVars

\* the test `if nr > 0` of the outbound pump
forwardAlways(nr) == TRUE
forward(nr) == nr > 0

\* outbound pump: nr, err := hijackedResp.Read(buf); if err != nil {...}; if nr > 0.
\* The call blocks until bytes are there, the stream has ended or the handle is
\* closed; an io.Reader may return nr = 0 without error, and may return bytes
\* together with the error.
OutRead ==
    /\ sess.opc = "read"
    /\ LET avail == sess.produced - Len(sess.rd)
           chunk(nr) == SubSeq(RemoteStream, Len(sess.rd) + 1, Len(sess.rd) + nr)
       IN IF sess.hj # "open"
            THEN sess' = [sess EXCEPT !.opc = "report"]
            ELSE \/ \E nr \in 0..Min(avail, bufSize) :
                       sess' = [sess EXCEPT !.opc = IF forward(nr) THEN "write" ELSE "read",
                                            !.buf = chunk(nr), !.rd = @ \o chunk(nr)]
                 \/ /\ sess.remoteDone
                    /\ \E nr \in 0..Min(avail, bufSize) :
                         sess' = [sess EXCEPT !.opc = "report", !.rd = @ \o chunk(nr)]
    /\ UNCHANGED regVars

\* outbound pump: err := ws.WriteMessage(websocket.BinaryMessage, buf[:nr])
OutForward ==
    /\ sess.opc = "write"
    /\ \E ok \in WsWriteResults :
         sess' = [sess EXCEPT !.opc = IF ok THEN "read" ELSE "report",
                    !.buf = << >>,
                    !.wsLog = IF ok THEN Append(@, WsRec(BinaryMessage, sess.buf, "",
                                                         "outbound"))
                              ELSE @]
    /\ UNCHANGED regVars

\* a pump: errChan <- err; return
OutReport ==
    /\ sess.opc = "report"
    /\ Len(sess.errChan) < errChanCap
    /\ sess' = [sess EXCEPT !.opc = "exited", !.errChan = Append(@, "outbound")]
    /\ UNCHANGED regVars

\* inbound pump: messageType, p, err := ws.ReadMessage(). The call blocks until a
\* frame is there, the operator has closed or the connection is closed.
InRead ==
    /\ sess.ipc = "read"
    /\ IF sess.ws # "open"
         THEN sess' = [sess EXCEPT !.ipc = "report"]
       ELSE IF sess.pending # << >>
         THEN sess' = [sess EXCEPT !.ipc = "handle", !.pending = Tail(@),
                                   !.cur = Head(sess.pending),
                                   !.expIn = @ \o InputData(Head(sess.pending))]
       ELSE /\ sess.peerClosed
            /\ sess' = [sess EXCEPT !.ipc = "report"]
    /\ UNCHANGED regVars

\* the results (number of bytes written, or "all") of hijackedResp.Write(d)
HjWriteResults(d) ==
    IF sess.hj # "open" THEN {0}
    ELSE IF sess.remoteDone THEN {-1} \cup (0..(IF Len(d) = 0 THEN 0 ELSE Len(d) - 1))
    ELSE {-1}

\* where the inbound pump goes after ResizeExec returned err: the error is only
\* logged
afterResizeStop(err) == IF err THEN "report" ELSE "read"
afterResize(err) == "read"

\* the test `messageType == websocket.TextMessage` of the inbound pump
isControlAny(k) == TRUE
isControl(k) == k = TextMessage

\* inbound pump: the body of the loop for the frame read
InHandle ==
    /\ sess.ipc = "handle"
    /\ LET m == Unmarshal(sess.cur.payload) IN
       IF ~isControl(sess.cur.kind) \/ m.err
         THEN /\ sess' = [sess EXCEPT !.ipc = "read", !.cur = NoFrame]
              /\ UNCHANGED regVars
       ELSE IF m.Type = "input"
         THEN /\ \E n \in HjWriteResults(m.Data) :
                   sess' = [sess EXCEPT
                              !.ipc = IF n = -1 THEN "read" ELSE "report",
                              !.cur = NoFrame,
                              !.remoteIn = @ \o (IF n = -1 THEN m.Data
                                                 ELSE SubSeq(m.Data, 1, n))]
              /\ UNCHANGED regVars
       ELSE IF m.Type = "resize"
         THEN \E g \in getClient(clients, store, nextId, sess.ctx) :
                /\ Svc(g)
                /\ \E e \in IF g.res.err # "" THEN {TRUE} ELSE BOOLEAN :
                     LET c == Call("resize", g.res.cli.id, m.Rows, m.Cols) IN
                     sess' = [sess EXCEPT !.ipc = afterResize(e), !.cur = NoFrame,
                                !.calls = IF g.res.err # "" THEN @
                                          ELSE Append(@, IF e THEN Failed(c) ELSE c)]
       ELSE /\ sess' = [sess EXCEPT !.ipc = "read", !.cur = NoFrame]
            /\ UNCHANGED regVars

InReport ==
    /\ sess.ipc = "report"
    /\ Len(sess.errChan) < errChanCap
    /\ sess' = [sess EXCEPT !.ipc = "exited", !.errChan = Append(@, "inbound")]
    /\ UNCHANGED regVars

\* the operator sends its next frame (the connection delivers frames in order, so
\* it is sent when the previous one has been read)
OperatorSend ==
    /\ sess.ws = "open" /\ ~sess.peerClosed
    /\ sess.sent + sess.produced < MaxIO /\ sess.pending = << >>
    /\ \E f \in Frames : sess' = [sess EXCEPT !.pending = Append(@, f), !.sent = @ + 1]
    /\ UNCHANGED regVars

\* the operator closes the connection, or it breaks
OperatorClose ==
    /\ sess.ws = "open" /\ ~sess.peerClosed
    /\ sess' = [sess EXCEPT !.peerClosed = TRUE]
    /\ UNCHANGED regVars

\* the remote process emits its next byte
RemoteEmit ==
    /\ sess.hj = "open" /\ ~sess.remoteDone
    /\ sess.sent + sess.produced < MaxIO
    /\ sess' = [sess EXCEPT !.produced = @ + 1]
    /\ UNCHANGED regVars

\* the remote process exits, or the stream breaks
RemoteExit ==
    /\ sess.hj = "open" /\ ~sess.remoteDone
    /\ sess' = [sess EXCEPT !.remoteDone = TRUE]
    /\ UNCHANGED regVars

HandlerStep == HRequest \/ HUpgrade \/ HCreateExec \/ HAttachExec \/ HSpawn \/ HStartExec
               \/ HSelectErr \/ HSelectDone \/ HCloseHijack \/ HCloseWs
PumpStep == OutRead \/ OutForward \/ OutReport \/ InRead \/ InHandle \/ InReport
EnvStep == OperatorSend \/ OperatorClose \/ RemoteEmit \/ RemoteExit

\* in the store of the session model context "b" does not exist
SessDoc == [SeedDoc EXCEPT !.contexts["b"] = NoEntry]

SessInit ==
    /\ store = SessDoc
    /\ clients = [n \in Names |-> NoClient]
    /\ env = ""
    /\ nextId = 1
    /\ proc = [p \in Procs |-> Idle]
    /\ nops = 0
    /\ last = HistRec(Idle)
    /\ sess = SessIdle

SessNext == HandlerStep \/ PumpStep \/ EnvStep
SessSpec == SessInit /\ [][SessNext]_vars

\* UpdateContextConfig(n, {t, h}) run without interruption on client map cl, file st,
\* DOCKER_HOST e and next identity nid: the outcomes [err, clients, store, env, nextId]
UpdateContextConfig(cl, st, e, nid, n, t, h) ==
    LET out(err, c, f, v, i) ==
            [err |-> err, clients |-> c, store |-> f, env |-> v, nextId |-> i]
        new(v) == [id |-> nid, host |-> FromEnvHost(v)]
    IN UNION { IF r.err THEN { out("ConfigError", cl, r.file, e, nid) }
               ELSE IF ~r.cfg.contexts[n].present
                 THEN { out("NotFound", cl, r.file, e, nid) }
               ELSE LET cfg == [r.cfg EXCEPT !.contexts[n] = Entry(t, h)]
                        v == buildDockerHost(h)
                    IN IF ~isCurrent(r.cfg, n)
                         THEN { out(IF w.err THEN "SaveError" ELSE "", cl, w.file, e, nid)
                                  : w \in saveConfig(r.file, cfg) }
                       ELSE IF NewClientWithHostFails(FromEnvHost(v))
                         THEN { out("ClientError", cl, r.file, v, nid) }
                       ELSE { out(IF w.err THEN "SaveError" ELSE "",
                                  [cl EXCEPT ![n] = new(v)], w.file, v, nid + 1)
                                : w \in saveConfig(r.file, cfg) }
             : r \in readConfig(st) }

\* another request updates a context while the session runs
CtxUpdate ==
    /\ nops < MaxUpdates
    /\ sess.hpc \notin {"none", "upgrade", "returned"}
    /\ \E n \in Names, t \in Types, h \in Hosts :
         \E o \in UpdateContextConfig(clients, store, env, nextId, n, t, h) :
           /\ clients' = o.clients /\ store' = o.store /\ env' = o.env
           /\ nextId' = o.nextId
    /\ nops' = nops + 1
    /\ UNCHANGED <<proc, last, sessVars>>

\* a session with context updates by other requests in between its steps
MixNext == HandlerStep \/ PumpStep \/ EnvStep \/ CtxUpdate
MixSpec == SessInit /\ [][MixNext]_vars

\* the Go scheduler runs every goroutine that can take a step: the handler and each
\* pump; the operator and the remote process owe nothing
OutPump == OutRead \/ OutForward \/ OutReport
InPump == InRead \/ InHandle \/ InReport
SessFair == SessSpec /\ WF_vars(HandlerStep) /\ WF_vars(OutPump) /\ WF_vars(InPump)

(***************************************************************************)
(* Claims about the context store and the client registry                  *)
(***************************************************************************)
GetDone(p, n) == proc[p].pc = "done" /\ proc[p].op = "get" /\ proc[p].name = n

\* C1: get(name) calls issued while no handle is cached for name, with no update of
\* name in between, sequential or interleaved, all return the same handle (a single
\* backend client is created for name).
C1_SingleHandlePerName ==
    \A n \in Names : \A p, q \in Procs :
        ( /\ GetDone(p, n) /\ GetDone(q, n)
          /\ proc[p].res.err = "" /\ proc[q].res.err = ""
          /\ proc[p].pre = NoClient /\ proc[q].pre = NoClient
          /\ ~proc[p].upd /\ ~proc[q].upd )
        => proc[p].res.cli = proc[q].res.cli

\* C2: a get(name) that follows a successful update(name, descriptor) of the current
\* context returns a handle bound to the descriptor's address, and not the handle
\* that was cached before the update.
C2_UpdateThenGet ==
    \A n \in Names :
        ( /\ GetDone(SeqProc, n)
          /\ last.op = "update" /\ last.name = n /\ last.err = "" /\ last.isCur )
        => /\ proc[SeqProc].res.err = ""
           /\ proc[SeqProc].res.cli.host = last.host
           /\ proc[SeqProc].res.cli # last.pre

\* C3: a get(name) that follows a successful delete(name) fails with NotFound.
C3_DeleteThenGetNotFound ==
    \A n \in Names :
        ( GetDone(SeqProc, n) /\ last.op = "delete" /\ last.name = n /\ last.err = "" )
        => proc[SeqProc].res.err = "NotFound"

\* C4: delete(name) with name the store's current context fails with InUse and
\* changes neither the store file nor the cached handles.
C4_DeleteCurrentInUse ==
    [][ ( /\ proc[SeqProc].pc = "delete"
          /\ store.state = "ok" /\ store.current = proc[SeqProc].name )
        => /\ proc'[SeqProc].pc = "done"
           /\ proc'[SeqProc].res.err = "InUse"
           /\ store' = store /\ clients' = clients ]_vars

C4_Witness ==
    /\ proc[SeqProc].pc = "done" /\ proc[SeqProc].op = "delete"
    /\ proc[SeqProc].res.err = "InUse"
    /\ store.current = proc[SeqProc].name
    /\ clients[proc[SeqProc].name] # NoClient

\* C5: a handle bound to address A is put in the cache for name only when the store
\* file already holds the descriptor with address A for name.
C5_PersistBeforeHandle ==
    [][ \A n \in Names :
          clients'[n] # clients[n]
          => /\ store.state = "ok" /\ store.contexts[n].present
             /\ store.contexts[n].host = clients'[n].host ]_vars

(***************************************************************************)
(* Claims about the session bridge                                         *)
(***************************************************************************)
RECURSIVE Flatten(_)
Flatten(ss) == IF ss = << >> THEN << >> ELSE Head(ss) \o Flatten(Tail(ss))

IsPrefix(a, b) == Len(a) <= Len(b) /\ SubSeq(b, 1, Len(a)) = a

BinaryFrames == SelectSeq(sess.wsLog, LAMBDA r : r.kind = BinaryMessage)
BinaryData == [i \in 1..Len(BinaryFrames) |-> BinaryFrames[i].data]
AttachCalls == { i \in 1..Len(sess.calls) : sess.calls[i].call = "attach" }

PumpFinished == sess.opc \in {"report", "exited"} \/ sess.ipc \in {"report", "exited"}
SessionClosed ==
    /\ sess.hpc = "returned"
    /\ sess.hj = "closed" /\ sess.ws = "closed"
    /\ sess.opc = "exited" /\ sess.ipc = "exited"
    /\ Cardinality(AttachCalls) = 1

\* C6: once a pump of a running session has finished, the session is eventually
\* closed: the handler has returned, the remote process handle and the operator
\* connection are closed, both pumps have reported and exited, and nothing was
\* attached a second time.
C6_FirstPumpTeardown == (sess.started = "ok" /\ PumpFinished) ~> SessionClosed

C6_Witness == sess.started = "ok" /\ SessionClosed /\ sess.errChan = << "inbound" >>

\* C7: nothing is read from the remote process handle or the operator connection,
\* and nothing is forwarded, unless StartExec has returned success.
C7_RelayAfterStart ==
    sess.started # "ok"
    => /\ sess.rd = << >> /\ BinaryFrames = << >>
       /\ sess.cur = NoFrame /\ sess.expIn = << >> /\ sess.remoteIn = << >>

\* C8: when CreateExec (context resolution or process creation) or AttachExec
\* fails, the handler writes exactly one text message to the operator connection
\* while it is open, starts no pump, and returns with the connection closed.
C8_SetupFailureReported ==
    sess.cause \in {"creating exec", "attaching to exec"}
    => /\ sess.hpc \in {"defer_ws", "returned"}
       /\ Len(sess.wsLog) = 1
       /\ sess.wsLog[1].kind = TextMessage /\ sess.wsLog[1].by = "handler"
       /\ sess.wsLog[1].text = "Error " \o sess.cause
       /\ sess.opc = "none" /\ sess.ipc = "none" /\ sess.hj = "none"
       /\ sess.ws = IF sess.hpc = "returned" THEN "closed" ELSE "open"

C8_Witness ==
    /\ sess.ctx = "b" /\ sess.cause = "creating exec" /\ sess.calls = << >>
    /\ sess.hpc = "returned"

\* C9: the payloads of the binary frames written to the operator connection,
\* concatenated, are a prefix of the bytes read from the remote process handle, which
\* are a prefix of what the process emitted; no binary frame is empty.
C9_OutboundOrder ==
    /\ IsPrefix(Flatten(BinaryData), sess.rd)
    /\ IsPrefix(sess.rd, SubSeq(RemoteStream, 1, sess.produced))
    /\ \A i \in 1..Len(BinaryData) : BinaryData[i] # << >>

C9_Witness ==
    /\ sess.started = "ok"
    /\ Len(BinaryFrames) = 2 /\ Flatten(BinaryData) = << 1, 2 >>
    /\ sess.rd = << 1, 2 >> /\ sess.opc = "exited"

\* C10: the bytes written to the remote process handle are the data of the input
\* control frames read so far, in order: all of it while the inbound pump waits for
\* the next frame, all but the current frame's while it handles one, and a prefix
\* of it once a write has failed. Other frames contribute nothing.
C10_InboundInput ==
    /\ IsPrefix(sess.remoteIn, sess.expIn)
    /\ sess.ipc = "read" => sess.remoteIn = sess.expIn
    /\ sess.ipc = "handle" => sess.remoteIn \o InputData(sess.cur) = sess.expIn

C10_Witness ==
    /\ sess.started = "ok"
    /\ sess.remoteIn = InputB.data \o InputA.data
    /\ sess.sent = 2 /\ sess.pending = << >> /\ sess.ipc = "read"

\* the inbound pump finishes handling a frame in this step
Handled == sess.ipc = "handle" /\ sess'.ipc # "handle"
ResizeFrame(f) ==
    /\ f.kind = TextMessage /\ f.payload.wf /\ f.payload.tag # "number"
    /\ f.payload.type = "resize"

\* C11: handling a well-formed resize control frame issues exactly one ResizeExec
\* backend call, with the rows and cols of the frame; whether or not the call
\* fails, the inbound pump goes back to reading and nothing is put on errChan.
C11_ResizeOncePerFrame ==
    [][ (Handled /\ ResizeFrame(sess.cur))
        => /\ Len(sess'.calls) = Len(sess.calls) + 1
           /\ SubSeq(sess'.calls, 1, Len(sess.calls)) = sess.calls
           /\ LET c == sess'.calls[Len(sess'.calls)] IN
                /\ c.call = "resize"
                /\ c.rows = sess.cur.payload.rows /\ c.cols = sess.cur.payload.cols
           /\ sess'.ipc = "read" /\ sess'.errChan = sess.errChan
           /\ sess'.remoteIn = sess.remoteIn /\ sess'.wsLog = sess.wsLog ]_vars

C11_Witness ==
    /\ sess.started = "ok" /\ sess.ipc = "read" /\ sess.errChan = << >>
    /\ \E i \in 1..Len(sess.calls) :
         /\ sess.calls[i].call = "resize" /\ sess.calls[i].err
         /\ sess.calls[i].rows = 24 /\ sess.calls[i].cols = 80

BadFrame(f) ==
    \/ f.kind # TextMessage
    \/ ~f.payload.wf \/ f.payload.tag = "number"
    \/ f.payload.type \notin {"input", "resize"}

\* C12: a frame that is not text, a text frame that does not parse into the
\* control structure, and a control frame of unknown type are dropped: handling one
\* writes nothing to the remote process handle, issues no backend call, writes
\* nothing to the operator, puts nothing on errChan and leaves the handler where
\* it is; the inbound pump reads on.
C12_BadFramesDropped ==
    [][ (Handled /\ BadFrame(sess.cur))
        => /\ sess'.remoteIn = sess.remoteIn /\ sess'.calls = sess.calls
           /\ sess'.wsLog = sess.wsLog /\ sess'.errChan = sess.errChan
           /\ sess'.ipc = "read" /\ sess'.hpc = sess.hpc
           /\ sess'.ws = sess.ws /\ sess'.hj = sess.hj ]_vars

C12_Witness ==
    /\ sess.started = "ok" /\ sess.hpc = "select" /\ sess.ipc = "read"
    /\ sess.sent = 2 /\ sess.pending = << >> /\ sess.remoteIn = InputA.data
    /\ Len(sess.calls) = 3 /\ sess.errChan = << >>

\* C13: a getClient call that found no cached handle and returns an error leaves
\* the cache without an entry for the name; with a readable store it returns
\* NotFound when the store has no descriptor for the name and InvalidConfig when
\* the descriptor's host is empty.
C13_GetFailures ==
    \A n \in Names :
      (GetDone(SeqProc, n) /\ proc[SeqProc].pre = NoClient)
      => /\ proc[SeqProc].res.err # "" => clients[n] = NoClient
         /\ store.state = "ok"
            => /\ ~store.contexts[n].present => proc[SeqProc].res.err = "NotFound"
               /\ (store.contexts[n].present /\ store.contexts[n].host = "")
                  => proc[SeqProc].res.err = "InvalidConfig"

C13_Witness ==
    /\ GetDone(SeqProc, "b") /\ proc[SeqProc].pre = NoClient
    /\ proc[SeqProc].res.err = "InvalidConfig"
    /\ last.op = "get" /\ last.name = "a" /\ last.err = "NotFound"

UpdateDone(p, n) == proc[p].pc = "done" /\ proc[p].op = "update" /\ proc[p].name = n

\* C14: an UpdateContextConfig of the current context to a host at which no
\* backend answers returns an error and caches no handle bound to that host.
C14_UpdateReportsUnreachable ==
    \A n \in Names :
      (UpdateDone(SeqProc, n) /\ proc[SeqProc].isCur /\ proc[SeqProc].host \in Unreachable)
      => /\ proc[SeqProc].res.err # ""
         /\ clients[n].host # proc[SeqProc].host

\* C15: after a successful UpdateContextConfig(n, host) of a context that had a
\* cached handle, current or not, to a well-formed non-empty host, the next
\* getClient(n) returns a handle bound to that host and the handle cached before
\* the update is no longer in the cache.
C15_UpdateAnyThenGet ==
    \A n \in Names :
      ( /\ GetDone(SeqProc, n)
        /\ last.op = "update" /\ last.name = n /\ last.err = ""
        /\ last.pre # NoClient /\ last.host \notin {"", "bad"} )
      => /\ proc[SeqProc].res.err = ""
         /\ proc[SeqProc].res.cli.host = last.host
         /\ clients[n] # last.pre

\* C16: a step of an operation on one context, taken while the store file is and
\* stays a readable document, changes neither the cached handle nor the persisted
\* descriptor of any other context.
C16_OtherContextsUntouched ==
    [][ \A p \in Procs : \A m \in Names :
          ( /\ proc'[p] # proc[p] /\ proc[p].op # "none" /\ proc[p].name # m
            /\ store.state = "ok" /\ store'.state = "ok" )
          => /\ store'.contexts[m] = store.contexts[m]
             /\ clients'[m] = clients[m] ]_vars

\* C17: when a getClient(n) and an UpdateContextConfig(n, host) of the current
\* context n, run concurrently, have both returned without error (host being
\* well-formed and not empty), the cached handle of n is bound to the host of the
\* persisted descriptor of n.
C17_GetUpdateSerialized ==
    \A n \in Names : \A p, q \in Procs :
      ( /\ GetDone(p, n) /\ proc[p].res.err = ""
        /\ UpdateDone(q, n) /\ proc[q].res.err = "" /\ proc[q].isCur
        /\ proc[q].host \notin {"", "bad"} /\ store.state = "ok" )
      => clients[n].host = store.contexts[n].host

\* C18: when the handler has returned, on whatever path, the operator connection
\* (if the upgrade gave one) is closed and the remote process handle (if AttachExec
\* gave one) is closed; each deferred Close runs on a resource that is still open,
\* so no resource is closed twice.
C18_NoResourceOutlivesSession ==
    /\ sess.hpc = "returned"
       => /\ sess.ws = IF sess.cause = "upgrade" THEN "none" ELSE "closed"
          /\ sess.hj = IF AttachCalls = {} \/ sess.cause = "attaching to exec"
                         THEN "none" ELSE "closed"
    /\ sess.hpc = "defer_hj" => sess.hj = "open"
    /\ sess.hpc = "defer_ws" => sess.ws = "open" /\ sess.hj # "open"

C18_Witness ==
    /\ sess.hpc = "returned" /\ sess.started = "failed"
    /\ sess.ws = "closed" /\ sess.hj = "closed"
    /\ sess.opc = "exited" /\ sess.ipc = "exited"

\* C19: the store file never holds a partial document: whatever readConfig finds
\* is a complete document, or no file.
C19_StoreNeverPartial == store.state # "corrupt"

\* C20: all backend calls of a session (create, attach, start, resize) are issued
\* on one and the same client handle.
C20_OneHandlePerSession ==
    \A i, j \in 1..Len(sess.calls) : sess.calls[i].id = sess.calls[j].id

\* a frame is written to the operator connection by the handler in this step
HandlerWrites ==
    /\ Len(sess'.wsLog) = Len(sess.wsLog) + 1
    /\ sess'.wsLog[Len(sess'.wsLog)].by = "handler"

\* C21: the operator connection has one writer at a time: the handler never
\* writes a frame to it while the outbound pump is in its ws.WriteMessage call.
C21_SingleWriterPerDirection == [][ HandlerWrites => sess.opc # "write" ]_vars

\* request p has returned success from a mutation of the store
MutationDone(p) ==
    /\ proc[p].pc = "done" /\ proc[p].res.err = ""
    /\ proc[p].op \in {"create", "update", "delete"}
\* the store document shows the effect of p's mutation
Reflected(p) ==
    store.contexts[proc[p].name] =
        IF proc[p].op = "delete" THEN NoEntry ELSE Entry(proc[p].type, proc[p].host)

\* C22: when two mutations of the store on distinct names have both returned
\* success, the persisted document shows the effect of both.
C22_NoLostUpdate ==
    \A p, q \in Procs :
      ( /\ MutationDone(p) /\ MutationDone(q)
        /\ proc[p].name # proc[q].name /\ store.state = "ok" )
      => Reflected(p) /\ Reflected(q)

====
